---- MODULE Spec2Model ----
(***************************************************************************)
(* A model of container_agent/run_containers.py: the manifest loader, the *)
(* group resolver, the runtime driver and the keepalive supervisors.      *)
(*                                                                         *)
(* Python strings that the code inspects (names, paths, tokens, rendered  *)
(* port keys, mounts, env assignments) are sequences of one-character     *)
(* strings, so that the regular expressions and the string formatting are *)
(* computed rather than assumed.  A dict key that may be missing, and a   *)
(* value that may be None, is a sequence of length 0 or 1.                *)
(***************************************************************************)
EXTENDS Integers, Sequences, FiniteSets, TLC

\* ------------------------------------------------------------------------
\* Optional values: a missing dict key / Python None.

None == <<>>

Some(v) == <<v>>

Has(f) == Len(f) = 1

Get(f) == f[1]

Range(s) == {s[i] : i \in 1..Len(s)}

\* ------------------------------------------------------------------------
\* Program constants.

SUPPORTED_CONFIG_VERSIONS == {"v1beta1"}

PROTOCOL_TCP == "TCP"

PROTOCOL_UDP == "UDP"

VALID_PROTOCOLS == {PROTOCOL_TCP, PROTOCOL_UDP}

MAX_PATH_LEN == 512

MAX_PORT == 65535

\* range(9, -1, -1): the first value of pulls_left.
PULLS_LEFT_FIRST == 9

\* time.sleep(3) between two pulls.
PULL_RETRY_DELAY == 3

VOLUMES_ROOT_DIR == <<"/", "e", "x", "p", "o", "r", "t">>

\* Character classes of the two regular expressions.
LowerChars ==
    {"a", "b", "c", "d", "e", "f", "g", "h", "i", "j", "k", "l", "m",
     "n", "o", "p", "q", "r", "s", "t", "u", "v", "w", "x", "y", "z"}

UpperChars ==
    {"A", "B", "C", "D", "E", "F", "G", "H", "I", "J", "K", "L", "M",
     "N", "O", "P", "Q", "R", "S", "T", "U", "V", "W", "X", "Y", "Z"}

DigitChars == {"0", "1", "2", "3", "4", "5", "6", "7", "8", "9"}

\* \w of a Python byte-string pattern.
WordChars == LowerChars \cup UpperChars \cup DigitChars \cup {"_"}

\* The strings a non-MULTILINE '$' lets a pattern end at: the end of the
\* string, or just before a newline that is the string's last character.
DollarPrefixes(s) ==
    {s} \cup (IF Len(s) >= 1 /\ s[Len(s)] = "\n"
              THEN {SubSeq(s, 1, Len(s) - 1)}
              ELSE {})

\* ------------------------------------------------------------------------
\* Validators.

IsValidProtocol(proto) == proto \in VALID_PROTOCOLS

ProtocolString(proto) ==
    IF proto = PROTOCOL_UDP THEN <<"/", "u", "d", "p">> ELSE <<>>

IsValidPort(port) == 0 < port /\ port <= MAX_PORT

\* ^[a-z]([-a-z0-9]*[a-z0-9])*$ matched against all of b.
MatchesRfc1035(b) ==
    /\ Len(b) >= 1
    /\ b[1] \in LowerChars
    /\ \A i \in 2..Len(b) : b[i] \in LowerChars \cup DigitChars \cup {"-"}
    /\ b[Len(b)] \in LowerChars \cup DigitChars

\* The pattern without its anchors, used with re.search.
IsRfc1035NameUnanchored(name) ==
    \E i \in 1..Len(name) : name[i] \in LowerChars

IsRfc1035Name(name) == \E b \in DollarPrefixes(name) : MatchesRfc1035(b)

\* [A-Za-z_]\w*$ matched (anchored at the start by re.match) against all of b.
MatchesCToken(b) ==
    /\ Len(b) >= 1
    /\ b[1] \in LowerChars \cup UpperChars \cup {"_"}
    /\ \A i \in 2..Len(b) : b[i] \in WordChars

IsCToken(name) == \E b \in DollarPrefixes(name) : MatchesCToken(b)

\* path[0] of the empty string raises IndexError.
IsValidPathRaises(path) == Len(path) = 0

IsValidPath(path) == path[1] = "/" /\ Len(path) <= MAX_PATH_LEN

\* ------------------------------------------------------------------------
\* Outcomes of a loader: a returned value, a call of Fatal (sys.exit(1)
\* after the message), or an uncaught exception.  at is the index Python's
\* enumerate() had reached.

Return(v) == [st |-> "ok", val |-> v, msg |-> "", at |-> -1]

Fatal(m, i) == [st |-> "fatal", val |-> <<>>, msg |-> m, at |-> i]

Raise(m, i) == [st |-> "raise", val |-> <<>>, msg |-> m, at |-> i]

\* ------------------------------------------------------------------------
\* String formatting.

DecimalDigits == <<"0", "1", "2", "3", "4", "5", "6", "7", "8", "9">>

RECURSIVE NatToStr(_)
NatToStr(n) ==
    IF n < 10 THEN <<DecimalDigits[n + 1]>>
    ELSE NatToStr(n \div 10) \o <<DecimalDigits[(n % 10) + 1]>>

\* '%s' % n for an int.
IntToStr(n) == IF n < 0 THEN <<"-">> \o NatToStr(-n) ELSE NatToStr(n)

\* A key that leaves the protocol suffix out.
PortKeyWithoutSuffix(port, suffix) == IntToStr(port)

\* '%s%s' % (port, suffix): the key of the group-wide sets.
PortKey(port, suffix) == IntToStr(port) \o suffix

\* '%s/%s:%s:%s' % (VOLUMES_ROOT_DIR, vol_name, vol_path, read_mode)
MountString(vol_name, vol_path, read_mode) ==
    VOLUMES_ROOT_DIR \o <<"/">> \o vol_name \o <<":">> \o vol_path
        \o <<":">> \o read_mode

\* '%s=%s' % (env_key, env_val)
EnvString(env_key, env_val) == env_key \o <<"=">> \o env_val

\* ------------------------------------------------------------------------
\* LoadPorts: one iteration per entry of the "ports" block.

RECURSIVE LoadPortsLoop(_, _, _, _, _)
LoadPortsLoop(ports_spec, i, all_ports, all_port_names, all_host_port_nums) ==
    IF i > Len(ports_spec) THEN Return(all_ports)
    ELSE
    LET port_spec == ports_spec[i]
        port_index == i - 1
        named == Has(port_spec.name)
        names == IF named THEN Append(all_port_names, Get(port_spec.name))
                 ELSE all_port_names
    IN
    IF named /\ ~IsRfc1035Name(Get(port_spec.name))
    THEN Fatal("containers[%s].ports[%d].name is invalid: %s", port_index)
    ELSE IF named /\ Get(port_spec.name) \in Range(all_port_names)
    THEN Fatal("containers[%s].ports[%d].name is not unique: %s", port_index)
    ELSE IF ~Has(port_spec.containerPort)
    THEN Fatal("containers[%s].ports[%s] has no containerPort", port_index)
    ELSE
    LET ctr_port == Get(port_spec.containerPort)
        host_port == IF Has(port_spec.hostPort) THEN Get(port_spec.hostPort)
                     ELSE ctr_port
        proto == IF Has(port_spec.protocol) THEN Get(port_spec.protocol)
                 ELSE "TCP"
    IN
    IF ~IsValidPort(ctr_port)
    THEN Fatal("containers[%s].ports[%s].containerPort is invalid: %d",
               port_index)
    ELSE IF ~IsValidPort(host_port)
    THEN Fatal("containers[%s].ports[%s].hostPort is invalid: %d", port_index)
    ELSE IF host_port \in Range(all_host_port_nums)
    THEN Fatal("containers[%s].ports[%s].hostPort is not unique: %d",
               port_index)
    ELSE IF ~IsValidProtocol(proto)
    THEN Fatal("containers[%s].ports[%s].protocol is invalid: %s", port_index)
    ELSE LoadPortsLoop(ports_spec, i + 1,
                       Append(all_ports,
                              <<host_port, ctr_port, ProtocolString(proto)>>),
                       names,
                       Append(all_host_port_nums, host_port))

\* A LoadPorts that checks every entry by itself, without the lists of the
\* names and host ports of the entries before it.
LoadPortsEntrywise(ports_spec) ==
    LET one(i) == LoadPortsLoop(<<ports_spec[i]>>, 1, <<>>, <<>>, <<>>)
        bad == {i \in 1..Len(ports_spec) : one(i).st # "ok"}
        first == CHOOSE i \in bad : \A j \in bad : i <= j
    IN  IF bad = {}
        THEN Return([i \in 1..Len(ports_spec) |-> one(i).val[1]])
        ELSE Fatal(one(first).msg, first - 1)

LoadPorts(ports_spec) == LoadPortsLoop(ports_spec, 1, <<>>, <<>>, <<>>)

\* ------------------------------------------------------------------------
\* LoadVolumeMounts: one iteration per entry of the "volumeMounts" block.

RECURSIVE LoadVolumeMountsLoop(_, _, _, _)
LoadVolumeMountsLoop(mounts_spec, all_volumes, i, all_mounts) ==
    IF i > Len(mounts_spec) THEN Return(all_mounts)
    ELSE
    LET vol_spec == mounts_spec[i]
        vol_index == i - 1
    IN
    IF ~Has(vol_spec.name)
    THEN Fatal("containers[%s].volumeMounts[%d] has no name", vol_index)
    ELSE IF ~IsRfc1035Name(Get(vol_spec.name))
    THEN Fatal("containers[%s].volumeMounts[%d].nameis invalid: %s", vol_index)
    ELSE IF Get(vol_spec.name) \notin Range(all_volumes)
    THEN Fatal("containers[%s].volumeMounts[%d].nameis not a known volume: %s",
               vol_index)
    ELSE IF ~Has(vol_spec.path)
    THEN Fatal("containers[%s].volumeMounts[%s] has no path", vol_index)
    ELSE IF IsValidPathRaises(Get(vol_spec.path))
    THEN Raise("IndexError: string index out of range", vol_index)
    ELSE IF ~IsValidPath(Get(vol_spec.path))
    THEN Fatal("containers[%s].volumeMounts[%s].path is invalid: %s", vol_index)
    ELSE
    LET read_mode == IF Has(vol_spec.readOnly) /\ Get(vol_spec.readOnly)
                     THEN <<"r", "o">> ELSE <<"r", "w">>
    IN LoadVolumeMountsLoop(mounts_spec, all_volumes, i + 1,
           Append(all_mounts,
                  MountString(Get(vol_spec.name), Get(vol_spec.path),
                              read_mode)))

LoadVolumeMounts(mounts_spec, all_volumes) ==
    LoadVolumeMountsLoop(mounts_spec, all_volumes, 1, <<>>)

\* ------------------------------------------------------------------------
\* LoadEnvVars: one iteration per entry of the "env" block.

RECURSIVE LoadEnvVarsLoop(_, _, _)
LoadEnvVarsLoop(env_spec, i, all_env_vars) ==
    IF i > Len(env_spec) THEN Return(all_env_vars)
    ELSE
    LET env == env_spec[i]
        env_index == i - 1
    IN
    IF ~Has(env.key)
    THEN Fatal("containers[%s].env[%d] has no key", env_index)
    ELSE IF ~IsCToken(Get(env.key))
    THEN Fatal("containers[%s].env[%d].key is invalid: %s", env_index)
    ELSE IF ~Has(env.value)
    THEN Fatal("containers[%s].env[%s] has no value", env_index)
    ELSE LoadEnvVarsLoop(env_spec, i + 1,
             Append(all_env_vars, EnvString(Get(env.key), Get(env.value))))

LoadEnvVars(env_spec) == LoadEnvVarsLoop(env_spec, 1, <<>>)

\* ------------------------------------------------------------------------
\* class Container.

Container(name, image) ==
    [name |-> name, image |-> image, command |-> <<>>, hostname |-> None,
     working_dir |-> None, ports |-> <<>>, mounts |-> <<>>,
     env_vars |-> <<>>, network_from |-> None]

\* The literals '.net' and 'container:.net'.
NetName == <<".", "n", "e", "t">>

\* A network linkage that names a container that is not the holder.
NetworkFromOther ==
    <<"c", "o", "n", "t", "a", "i", "n", "e", "r", ":", "n", "e", "t">>

NetworkFromNet ==
    <<"c", "o", "n", "t", "a", "i", "n", "e", "r", ":", ".", "n", "e", "t">>

\* An error of the run: what ended it, the message, the container index
\* (-1 outside the containers block) and the index inside the sub-block.
NoErr == [msg |-> "", ctr |-> -1, sub |-> -1]

Err(m, c, i) == [msg |-> m, ctr |-> c, sub |-> i]

\* ------------------------------------------------------------------------
\* LoadUserContainers: the body of the loop after the name has been
\* verified and appended to all_ctr_names.  The result carries the outcome
\* (st), the new Container (val) and the error.

CtrOutcome(st, val, e) == [st |-> st, val |-> val, err |-> e]

SubFailure(r, ctr_index) ==
    CtrOutcome(r.st, <<>>, Err(r.msg, ctr_index, r.at))

LoadUserContainerBody(ctr_spec, ctr_index, all_volumes) ==
    IF ~Has(ctr_spec.image)
    THEN CtrOutcome("fatal", <<>>,
                    Err("containers[%s] has no image", ctr_index, -1))
    ELSE
    LET c0 == Container(Get(ctr_spec.name), Get(ctr_spec.image))
        c1 == [c0 EXCEPT !.hostname = Some(c0.name),
                         !.command = IF Has(ctr_spec.command)
                                     THEN Get(ctr_spec.command) ELSE <<>>,
                         !.working_dir = ctr_spec.workingDir]
    IN
    IF Has(c1.working_dir) /\ IsValidPathRaises(Get(c1.working_dir))
    THEN CtrOutcome("raise", <<>>,
                    Err("IndexError: string index out of range",
                        ctr_index, -1))
    ELSE IF Has(c1.working_dir) /\ ~IsValidPath(Get(c1.working_dir))
    THEN CtrOutcome("fatal", <<>>,
                    Err("containers[%s].workingDir is invalid: %s",
                        ctr_index, -1))
    ELSE
    LET ports == LoadPorts(IF Has(ctr_spec.ports) THEN Get(ctr_spec.ports)
                           ELSE <<>>)
    IN
    IF ports.st # "ok" THEN SubFailure(ports, ctr_index)
    ELSE
    LET mounts == LoadVolumeMounts(IF Has(ctr_spec.volumeMounts)
                                   THEN Get(ctr_spec.volumeMounts) ELSE <<>>,
                                   all_volumes)
    IN
    IF mounts.st # "ok" THEN SubFailure(mounts, ctr_index)
    ELSE
    LET env == LoadEnvVars(IF Has(ctr_spec.env) THEN Get(ctr_spec.env)
                           ELSE <<>>)
    IN
    IF env.st # "ok" THEN SubFailure(env, ctr_index)
    ELSE CtrOutcome("ok",
                    [c1 EXCEPT !.ports = ports.val,
                               !.mounts = mounts.val,
                               !.env_vars = env.val,
                               !.network_from = Some(NetworkFromNet)],
                    NoErr)

\* ------------------------------------------------------------------------
\* LoadInfraContainers: the list of infra containers it returns, and the
\* user containers as it leaves them (it assigns their ports in place).

RECURSIVE ExtendedPorts(_, _, _)
ExtendedPorts(user_containers, i, net_ports) ==
    IF i > Len(user_containers) THEN net_ports
    ELSE ExtendedPorts(user_containers, i + 1,
                       net_ports \o user_containers[i].ports)

\* The user containers with their ports copied and not moved.
KeptPorts(user_containers) == user_containers

ClearedPorts(user_containers) ==
    [i \in 1..Len(user_containers) |->
        [user_containers[i] EXCEPT !.ports = <<>>]]

LoadInfraContainers(user_containers) ==
    LET net0 == Container(NetName, "busybox")
        net_ctr == [net0 EXCEPT
                       !.command = <<"sh", "-c",
                           "rm -f nap && mkfifo nap && exec cat nap">>,
                       !.ports = ExtendedPorts(user_containers, 1, <<>>)]
    IN [infra |-> <<net_ctr>>, users |-> ClearedPorts(user_containers)]

\* ------------------------------------------------------------------------
\* CheckGroupWideConflicts: the two nested loops, with the two sets.

RECURSIVE CheckPortsLoop(_, _, _, _)
CheckPortsLoop(ports, j, host_ports, ctr_ports) ==
    IF j > Len(ports)
    THEN Return([host_ports |-> host_ports, ctr_ports |-> ctr_ports])
    ELSE
    LET port == ports[j]
        h == PortKey(port[1], port[3])
        c == PortKey(port[2], port[3])
    IN
    IF h \in host_ports
    THEN Fatal("host port %s is not unique group-wide", j - 1)
    ELSE IF c \in ctr_ports
    THEN Fatal("container port %s is not unique group-wide", j - 1)
    ELSE CheckPortsLoop(ports, j + 1, host_ports \cup {h}, ctr_ports \cup {c})

RECURSIVE CheckCtrsLoop(_, _, _, _)
CheckCtrsLoop(containers, i, host_ports, ctr_ports) ==
    IF i > Len(containers) THEN [st |-> "ok", err |-> NoErr]
    ELSE
    LET r == CheckPortsLoop(containers[i].ports, 1, host_ports, ctr_ports)
    IN IF r.st # "ok" THEN [st |-> r.st, err |-> Err(r.msg, i - 1, r.at)]
       ELSE CheckCtrsLoop(containers, i + 1,
                          r.val.host_ports, r.val.ctr_ports)

CheckGroupWideConflicts(containers) == CheckCtrsLoop(containers, 1, {}, {})

\* ------------------------------------------------------------------------
\* State.

VARIABLES
    config,         \* the parsed manifest (yaml.load)
    pc,             \* where the main flow is
    err,            \* the error that ended the run, NoErr otherwise
    vol_index,      \* LoadVolumes: enumerate() index
    all_vol_names,  \* LoadVolumes: accumulator, then main's all_volumes
    ctr_index,      \* LoadUserContainers: enumerate() index
    all_ctr_names,  \* LoadUserContainers: accumulator
    all_ctrs,       \* LoadUserContainers: accumulator, then user_containers
    containers,     \* RunContainers: its argument
    run_index,      \* RunContainers: position in containers of ctr
    pulls_left,     \* RunContainers: the pull loop's variable
    ctr_id,         \* RunContainers: the id the last docker run printed
    oplog,          \* the requests the main flow has issued, in order
    entities,       \* the runtime: entity id -> [name, status]
    registry,       \* the runtime: image -> pulls that still fail
    keepalives,     \* the keepalive scripts spawned, in order
    events,         \* how many times a container has exited or been removed
    ports_spec,     \* a direct call of LoadPorts: its argument
    ports_result    \* a direct call of LoadPorts: its outcome

loadVars ==
    <<config, pc, err, vol_index, all_vol_names, ctr_index, all_ctr_names,
      all_ctrs, containers>>

runVars ==
    <<run_index, pulls_left, ctr_id, oplog, entities, registry, keepalives,
      events>>

portVars == <<ports_spec, ports_result>>

vars == <<loadVars, runVars, portVars>>

ConfigVolumes == IF Has(config.volumes) THEN Get(config.volumes) ELSE <<>>

ConfigContainers ==
    IF Has(config.containers) THEN Get(config.containers) ELSE <<>>

\* ------------------------------------------------------------------------
\* main(), up to the call of RunContainers.

\* A Fatal() that reports the message and returns to its caller.
FatalWithoutExit(e) ==
    /\ pc' = pc
    /\ err' = e

\* Fatal(): the message, then sys.exit(1).
FatalExit(e) ==
    /\ pc' = "fatal"
    /\ err' = e

\* An exception nothing catches: the traceback, then exit status 1.
Uncaught(e) ==
    /\ pc' = "raised"
    /\ err' = e

CheckVersion ==
    /\ pc = "CheckVersion"
    /\ IF ~Has(config.version)
       THEN FatalExit(Err("config has no version field", -1, -1))
       ELSE IF Get(config.version) \notin SUPPORTED_CONFIG_VERSIONS
       THEN FatalExit(Err("config version '%s' is not supported", -1, -1))
       ELSE pc' = "LoadVolumes" /\ err' = err
    /\ UNCHANGED <<config, vol_index, all_vol_names, ctr_index,
                   all_ctr_names, all_ctrs, containers, runVars, portVars>>

LoadVolumesIter ==
    /\ pc = "LoadVolumes"
    /\ vol_index < Len(ConfigVolumes)
    /\ LET vol == ConfigVolumes[vol_index + 1] IN
       IF ~Has(vol.name)
       THEN /\ FatalExit(Err("volumes[%d] has no name", -1, vol_index))
            /\ UNCHANGED <<vol_index, all_vol_names>>
       ELSE IF ~IsRfc1035Name(Get(vol.name))
       THEN /\ FatalExit(Err("volumes[%d].name is invalid: %s", -1, vol_index))
            /\ UNCHANGED <<vol_index, all_vol_names>>
       ELSE IF Get(vol.name) \in Range(all_vol_names)
       THEN /\ FatalExit(Err("volumes[%d].name is not unique: %s",
                             -1, vol_index))
            /\ UNCHANGED <<vol_index, all_vol_names>>
       ELSE /\ all_vol_names' = Append(all_vol_names, Get(vol.name))
            /\ vol_index' = vol_index + 1
            /\ UNCHANGED <<pc, err>>
    /\ UNCHANGED <<config, ctr_index, all_ctr_names, all_ctrs, containers,
                   runVars, portVars>>

LoadVolumesReturn ==
    /\ pc = "LoadVolumes"
    /\ vol_index = Len(ConfigVolumes)
    /\ pc' = "LoadUserContainers"
    /\ UNCHANGED <<config, err, vol_index, all_vol_names, ctr_index,
                   all_ctr_names, all_ctrs, containers, runVars, portVars>>

LoadUserContainersIter ==
    /\ pc = "LoadUserContainers"
    /\ ctr_index < Len(ConfigContainers)
    /\ LET ctr_spec == ConfigContainers[ctr_index + 1] IN
       IF ~Has(ctr_spec.name)
       THEN /\ FatalExit(Err("containers[%d] has no name", ctr_index, -1))
            /\ UNCHANGED <<ctr_index, all_ctr_names, all_ctrs>>
       ELSE IF ~IsRfc1035Name(Get(ctr_spec.name))
       THEN /\ FatalExit(Err("containers[%d].name is invalid: %s",
                             ctr_index, -1))
            /\ UNCHANGED <<ctr_index, all_ctr_names, all_ctrs>>
       ELSE IF Get(ctr_spec.name) \in Range(all_ctr_names)
       THEN /\ FatalExit(Err("containers[%d].name is not unique: %s",
                             ctr_index, -1))
            /\ UNCHANGED <<ctr_index, all_ctr_names, all_ctrs>>
       ELSE
       LET r == LoadUserContainerBody(ctr_spec, ctr_index, all_vol_names) IN
       /\ all_ctr_names' = Append(all_ctr_names, Get(ctr_spec.name))
       /\ IF r.st = "fatal"
          THEN FatalExit(r.err) /\ UNCHANGED <<ctr_index, all_ctrs>>
          ELSE IF r.st = "raise"
          THEN Uncaught(r.err) /\ UNCHANGED <<ctr_index, all_ctrs>>
          ELSE /\ all_ctrs' = Append(all_ctrs, r.val)
               /\ ctr_index' = ctr_index + 1
               /\ UNCHANGED <<pc, err>>
    /\ UNCHANGED <<config, vol_index, all_vol_names, containers, runVars, portVars>>

LoadUserContainersReturn ==
    /\ pc = "LoadUserContainers"
    /\ ctr_index = Len(ConfigContainers)
    /\ pc' = "CheckGroupWideConflicts"
    /\ UNCHANGED <<config, err, vol_index, all_vol_names, ctr_index,
                   all_ctr_names, all_ctrs, containers, runVars, portVars>>

CheckGroupWideConflictsCall ==
    /\ pc = "CheckGroupWideConflicts"
    /\ LET r == CheckGroupWideConflicts(all_ctrs) IN
       IF r.st = "fatal" THEN FatalExit(r.err)
       ELSE pc' = "LoadInfraContainers" /\ err' = err
    /\ UNCHANGED <<config, vol_index, all_vol_names, ctr_index,
                   all_ctr_names, all_ctrs, containers, runVars, portVars>>

\* main() without its test "if user_containers:".
MainLaunchUnconditional ==
    /\ pc = "LoadInfraContainers"
    /\ LET r == LoadInfraContainers(all_ctrs) IN
       /\ all_ctrs' = r.users
       /\ containers' = r.infra \o r.users
       /\ run_index' = 1
       /\ pulls_left' = PULLS_LEFT_FIRST
       /\ pc' = "pull"
    /\ UNCHANGED <<config, err, vol_index, all_vol_names, ctr_index,
                   all_ctr_names, ctr_id, oplog, entities, registry,
                   keepalives, events, portVars>>

\* main() calling RunContainers(user_containers + infra_containers).
MainLaunchHolderLast ==
    /\ pc = "LoadInfraContainers"
    /\ IF all_ctrs = <<>>
       THEN /\ pc' = "exit"
            /\ UNCHANGED <<all_ctrs, containers, run_index, pulls_left>>
       ELSE LET r == LoadInfraContainers(all_ctrs) IN
            /\ all_ctrs' = r.users
            /\ containers' = r.users \o r.infra
            /\ run_index' = 1
            /\ pulls_left' = PULLS_LEFT_FIRST
            /\ pc' = "pull"
    /\ UNCHANGED <<config, err, vol_index, all_vol_names, ctr_index,
                   all_ctr_names, ctr_id, oplog, entities, registry,
                   keepalives, events, portVars>>

\* "if user_containers:" with the call of LoadInfraContainers and the entry
\* into RunContainers(infra_containers + user_containers).
MainLaunch ==
    /\ pc = "LoadInfraContainers"
    /\ IF all_ctrs = <<>>
       THEN /\ pc' = "exit"
            /\ UNCHANGED <<all_ctrs, containers, run_index, pulls_left>>
       ELSE LET r == LoadInfraContainers(all_ctrs) IN
            /\ all_ctrs' = r.users
            /\ containers' = r.infra \o r.users
            /\ run_index' = 1
            /\ pulls_left' = PULLS_LEFT_FIRST
            /\ pc' = "pull"
    /\ UNCHANGED <<config, err, vol_index, all_vol_names, ctr_index,
                   all_ctr_names, ctr_id, oplog, entities, registry,
                   keepalives, events, portVars>>

NextLoad ==
    \/ CheckVersion
    \/ LoadVolumesIter
    \/ LoadVolumesReturn
    \/ LoadUserContainersIter
    \/ LoadUserContainersReturn
    \/ CheckGroupWideConflictsCall
    \/ MainLaunch

\* ------------------------------------------------------------------------
\* The container runtime (docker), as the driver and the keepalive scripts
\* see it.  entities[id] is the entity the runtime knows under id: its name
\* and whether it is running, has exited, or is gone (removed).

Entity(name, status) == [name |-> name, status |-> status]

\* The ids of the entities that exist under a name.
Named(name) ==
    {id \in 1..Len(entities) :
        entities[id].name = name /\ entities[id].status # "gone"}

SetStatus(ids, status) ==
    [id \in 1..Len(entities) |->
        IF id \in ids THEN [entities[id] EXCEPT !.status = status]
        ELSE entities[id]]

\* One request of the main flow: the docker sub-command (or the sleep, or
\* the spawn of the keepalive script), the position in containers of the
\* container it is for, its target, a number (the delay, the id) and
\* whether it succeeded.
Op(op, ctr, target, arg, ok) ==
    [op |-> op, ctr |-> ctr, target |-> target, arg |-> arg, ok |-> ok]

\* ------------------------------------------------------------------------
\* RunContainers: the body of "for ctr in containers", statement by
\* statement.

Ctr == containers[run_index]

\* docker pull ctr.image, one pass of the retry loop.
PullImage ==
    /\ pc = "pull"
    /\ LET ok == registry[Ctr.image] = 0 IN
       /\ oplog' = Append(oplog, Op("pull", run_index, <<Ctr.image>>,
                                    pulls_left, ok))
       /\ IF ok
          THEN /\ pc' = "kill"
               /\ UNCHANGED <<err, registry>>
          ELSE /\ registry' = [registry EXCEPT ![Ctr.image] = @ - 1]
               /\ IF pulls_left = 0
                  THEN FatalExit(Err("failed to pull %s", run_index - 1, -1))
                  ELSE pc' = "sleep" /\ err' = err
    /\ UNCHANGED <<config, vol_index, all_vol_names, ctr_index,
                   all_ctr_names, all_ctrs, containers, run_index,
                   pulls_left, ctr_id, entities, keepalives, events,
                   portVars>>

\* The delay of a retry loop that does not count its passes.
PullRetryDelayNoCountdown ==
    /\ pc = "sleep"
    /\ oplog' = Append(oplog, Op("sleep", run_index, <<>>, PULL_RETRY_DELAY,
                                 TRUE))
    /\ pc' = "pull"
    /\ UNCHANGED <<config, err, vol_index, all_vol_names, ctr_index,
                   all_ctr_names, all_ctrs, containers, run_index,
                   pulls_left, ctr_id, entities, registry, keepalives,
                   events, portVars>>

\* time.sleep(3), then the next value of the loop variable.
PullRetryDelay ==
    /\ pc = "sleep"
    /\ oplog' = Append(oplog, Op("sleep", run_index, <<>>, PULL_RETRY_DELAY,
                                 TRUE))
    /\ pulls_left' = pulls_left - 1
    /\ pc' = "pull"
    /\ UNCHANGED <<config, err, vol_index, all_vol_names, ctr_index,
                   all_ctr_names, all_ctrs, containers, run_index, ctr_id,
                   entities, registry, keepalives, events, portVars>>

\* docker kill whose return code is looked at, a failure being fatal.
KillExtantChecked ==
    /\ pc = "kill"
    /\ LET running == {id \in Named(Ctr.name) :
                          entities[id].status = "running"} IN
       \E ok \in {running # {}, FALSE} :
          /\ entities' = IF ok THEN SetStatus(running, "exited") ELSE entities
          /\ oplog' = Append(oplog, Op("kill", run_index, Ctr.name, 0, ok))
          /\ IF ok THEN pc' = "rm" /\ err' = err
             ELSE FatalExit(Err("failed to kill %s", run_index - 1, -1))
    /\ UNCHANGED <<config, vol_index, all_vol_names, ctr_index,
                   all_ctr_names, all_ctrs, containers, run_index,
                   pulls_left, ctr_id, registry, keepalives, events,
                   portVars>>

\* docker kill ctr.name; the return code is not looked at.
KillExtant ==
    /\ pc = "kill"
    /\ LET running == {id \in Named(Ctr.name) :
                          entities[id].status = "running"} IN
       \E ok \in {running # {}, FALSE} :
          /\ entities' = IF ok THEN SetStatus(running, "exited") ELSE entities
          /\ oplog' = Append(oplog, Op("kill", run_index, Ctr.name, 0, ok))
    /\ pc' = "rm"
    /\ UNCHANGED <<config, err, vol_index, all_vol_names, ctr_index,
                   all_ctr_names, all_ctrs, containers, run_index,
                   pulls_left, ctr_id, registry, keepalives, events,
                   portVars>>

\* A cleanup that also removes what no container of this run has started.
RemoveExtantAndStale ==
    /\ pc = "rm"
    /\ LET stale == {id \in 1..Len(entities) :
                        /\ entities[id].status # "gone"
                        /\ \A k \in 1..Len(keepalives) :
                              keepalives[k].id # id} IN
       \E ok \in {stale # {}, FALSE} :
          /\ entities' = IF ok THEN SetStatus(stale, "gone") ELSE entities
          /\ oplog' = Append(oplog, Op("rm", run_index, Ctr.name, 0, ok))
    /\ pc' = "run"
    /\ UNCHANGED <<config, err, vol_index, all_vol_names, ctr_index,
                   all_ctr_names, all_ctrs, containers, run_index,
                   pulls_left, ctr_id, registry, keepalives, events,
                   portVars>>

\* docker rm -f ctr.name; the return code is not looked at.
RemoveExtant ==
    /\ pc = "rm"
    /\ \E ok \in {Named(Ctr.name) # {}, FALSE} :
          /\ entities' = IF ok THEN SetStatus(Named(Ctr.name), "gone")
                         ELSE entities
          /\ oplog' = Append(oplog, Op("rm", run_index, Ctr.name, 0, ok))
    /\ pc' = "run"
    /\ UNCHANGED <<config, err, vol_index, all_vol_names, ctr_index,
                   all_ctr_names, all_ctrs, containers, run_index,
                   pulls_left, ctr_id, registry, keepalives, events,
                   portVars>>

\* docker run whose failure is logged and not fatal: the for loop goes on
\* to the next container.
RunContainerContinues ==
    /\ pc = "run"
    /\ \E ok \in {Named(Ctr.name) = {}, FALSE} :
          IF ok
          THEN /\ entities' = Append(entities, Entity(Ctr.name, "running"))
               /\ ctr_id' = Some(Len(entities) + 1)
               /\ oplog' = Append(oplog, Op("run", run_index, Ctr.name,
                                            Len(entities) + 1, TRUE))
               /\ pc' = "keepalive"
               /\ UNCHANGED <<run_index, pulls_left>>
          ELSE /\ oplog' = Append(oplog, Op("run", run_index, Ctr.name,
                                            0, FALSE))
               /\ IF run_index < Len(containers)
                  THEN /\ run_index' = run_index + 1
                       /\ pulls_left' = PULLS_LEFT_FIRST
                       /\ pc' = "pull"
                  ELSE /\ pc' = "done"
                       /\ UNCHANGED <<run_index, pulls_left>>
               /\ UNCHANGED <<entities, ctr_id>>
    /\ UNCHANGED <<config, err, vol_index, all_vol_names, ctr_index,
                   all_ctr_names, all_ctrs, containers, registry,
                   keepalives, events, portVars>>

\* docker run -d --name ctr.name ...: the runtime refuses a name that an
\* entity has, and may fail otherwise; on success it prints the new id.
RunContainer ==
    /\ pc = "run"
    /\ \E ok \in {Named(Ctr.name) = {}, FALSE} :
          IF ok
          THEN /\ entities' = Append(entities, Entity(Ctr.name, "running"))
               /\ ctr_id' = Some(Len(entities) + 1)
               /\ oplog' = Append(oplog, Op("run", run_index, Ctr.name,
                                            Len(entities) + 1, TRUE))
               /\ pc' = "keepalive"
               /\ err' = err
          ELSE /\ oplog' = Append(oplog, Op("run", run_index, Ctr.name,
                                            0, FALSE))
               /\ FatalExit(Err("failed to run container '%s'",
                                run_index - 1, -1))
               /\ UNCHANGED <<entities, ctr_id>>
    /\ UNCHANGED <<config, vol_index, all_vol_names, ctr_index,
                   all_ctr_names, all_ctrs, containers, run_index,
                   pulls_left, registry, keepalives, events, portVars>>

\* A keepalive script: the container name and id it was given, where its
\* loop is, and how its last restart request ended.
Keepalive(name, id) ==
    [name |-> name, id |-> id, pc |-> "wait", last |-> "none"]

\* A spawn statement executed twice.
SpawnKeepaliveTwice ==
    /\ pc = "keepalive"
    /\ keepalives' = keepalives \o <<Keepalive(Ctr.name, Get(ctr_id)),
                                      Keepalive(Ctr.name, Get(ctr_id))>>
    /\ oplog' = Append(oplog, Op("keepalive", run_index, Ctr.name,
                                 Get(ctr_id), TRUE))
    /\ IF run_index < Len(containers)
       THEN /\ run_index' = run_index + 1
            /\ pulls_left' = PULLS_LEFT_FIRST
            /\ pc' = "pull"
       ELSE /\ pc' = "done"
            /\ UNCHANGED <<run_index, pulls_left>>
    /\ UNCHANGED <<config, err, vol_index, all_vol_names, ctr_index,
                   all_ctr_names, all_ctrs, containers, ctr_id, entities,
                   registry, events, portVars>>

\* os.system(KEEPALIVE_SCRIPT % {..., 'name': ctr.name, 'id': ctr_id}): the
\* loop is put in the background, and the for loop goes on to the next
\* container or RunContainers returns.
SpawnKeepalive ==
    /\ pc = "keepalive"
    /\ keepalives' = Append(keepalives, Keepalive(Ctr.name, Get(ctr_id)))
    /\ oplog' = Append(oplog, Op("keepalive", run_index, Ctr.name,
                                 Get(ctr_id), TRUE))
    /\ IF run_index < Len(containers)
       THEN /\ run_index' = run_index + 1
            /\ pulls_left' = PULLS_LEFT_FIRST
            /\ pc' = "pull"
       ELSE /\ pc' = "done"
            /\ UNCHANGED <<run_index, pulls_left>>
    /\ UNCHANGED <<config, err, vol_index, all_vol_names, ctr_index,
                   all_ctr_names, all_ctrs, containers, ctr_id, entities,
                   registry, events, portVars>>

\* ------------------------------------------------------------------------
\* KEEPALIVE_SCRIPT: the loop of the k-th script spawned.

SetPc(k, p) == [keepalives EXCEPT ![k].pc = p]

\* docker wait id returns: the entity is not running (or is not there).
KeepaliveWaitReturns(k) ==
    /\ k \in 1..Len(keepalives)
    /\ keepalives[k].pc = "wait"
    /\ entities[keepalives[k].id].status # "running"
    /\ keepalives' = SetPc(k, "inspect")
    /\ UNCHANGED <<loadVars, run_index, pulls_left, ctr_id, oplog, entities,
                   registry, events, portVars>>

\* A script that breaks its loop whenever the container has exited.
KeepaliveInspectHaltsOnExit(k) ==
    /\ k \in 1..Len(keepalives)
    /\ keepalives[k].pc = "inspect"
    /\ keepalives' =
          SetPc(k, IF entities[keepalives[k].id].status # "running"
                   THEN "halted" ELSE "restart")
    /\ UNCHANGED <<loadVars, run_index, pulls_left, ctr_id, oplog, entities,
                   registry, events, portVars>>

\* docker inspect id: gone, the loop breaks; there, sleep 1 and the
\* restart request.
KeepaliveInspect(k) ==
    /\ k \in 1..Len(keepalives)
    /\ keepalives[k].pc = "inspect"
    /\ keepalives' =
          SetPc(k, IF entities[keepalives[k].id].status = "gone"
                   THEN "halted" ELSE "restart")
    /\ UNCHANGED <<loadVars, run_index, pulls_left, ctr_id, oplog, entities,
                   registry, events, portVars>>

\* A script that breaks its loop when the restart request fails.
KeepaliveRestartHaltsOnFailure(k) ==
    /\ k \in 1..Len(keepalives)
    /\ keepalives[k].pc = "restart"
    /\ \E ok \in {entities[keepalives[k].id].status # "gone", FALSE} :
          /\ entities' = IF ok THEN SetStatus({keepalives[k].id}, "running")
                         ELSE entities
          /\ keepalives' =
                [keepalives EXCEPT
                    ![k].pc = IF ok THEN "wait" ELSE "halted",
                    ![k].last = IF ok THEN "ok" ELSE "failed"]
    /\ UNCHANGED <<loadVars, run_index, pulls_left, ctr_id, oplog, registry,
                   events, portVars>>

\* docker restart id returns: the entity runs again, or the request has
\* failed (it fails if the entity is gone); the loop goes round.
KeepaliveRestartReturns(k) ==
    /\ k \in 1..Len(keepalives)
    /\ keepalives[k].pc = "restart"
    /\ \E ok \in {entities[keepalives[k].id].status # "gone", FALSE} :
          /\ entities' = IF ok THEN SetStatus({keepalives[k].id}, "running")
                         ELSE entities
          /\ keepalives' =
                [keepalives EXCEPT
                    ![k].pc = "wait",
                    ![k].last = IF ok THEN "ok" ELSE "failed"]
    /\ UNCHANGED <<loadVars, run_index, pulls_left, ctr_id, oplog, registry,
                   events, portVars>>

\* ------------------------------------------------------------------------
\* What happens to the containers this run has started.

MaxEvents == 2

Started == {keepalives[k].id : k \in 1..Len(keepalives)}
               \cup (IF pc = "keepalive" THEN {Get(ctr_id)} ELSE {})

\* The process of a container ends.
ContainerExits(id) ==
    /\ entities[id].status = "running"
    /\ events < MaxEvents
    /\ events' = events + 1
    /\ entities' = SetStatus({id}, "exited")
    /\ UNCHANGED <<loadVars, run_index, pulls_left, ctr_id, oplog, registry,
                   keepalives, portVars>>

\* An operator removes a container (docker rm -f id).
OperatorRemoves(id) ==
    /\ entities[id].status # "gone"
    /\ events < MaxEvents
    /\ events' = events + 1
    /\ entities' = SetStatus({id}, "gone")
    /\ UNCHANGED <<loadVars, run_index, pulls_left, ctr_id, oplog, registry,
                   keepalives, portVars>>

\* One statement of RunContainers.
RunContainersStep ==
    \/ PullImage
    \/ PullRetryDelay
    \/ KillExtant
    \/ RemoveExtant
    \/ RunContainer
    \/ SpawnKeepalive

NextRun ==
    \/ RunContainersStep
    \/ \E k \in 1..Len(keepalives) : KeepaliveWaitReturns(k)
    \/ \E k \in 1..Len(keepalives) : KeepaliveInspect(k)
    \/ \E k \in 1..Len(keepalives) : KeepaliveRestartReturns(k)
    \/ \E id \in Started : ContainerExits(id)
    \/ \E id \in Started : OperatorRemoves(id)

Next == NextLoad \/ NextRun

\* ------------------------------------------------------------------------
\* Inputs.

MaxContainers == 2

MaxVolumes == 2

MaxPorts == 2

NameA == <<"a">>

NameB == <<"b">>

NameHyphenEnd == <<"a", "-">>

NameNewlineEnd == <<"a", "\n">>

VolV == <<"v">>

VolUpper == <<"V">>

PathOk == <<"/", "m">>

PathRelative == <<"m">>

PathMaxLen == [i \in 1..MAX_PATH_LEN |-> IF i = 1 THEN "/" ELSE "x"]

PathTooLong == [i \in 1..(MAX_PATH_LEN + 1) |-> IF i = 1 THEN "/" ELSE "x"]

PortSpec(n, c, h, p) ==
    [name |-> n, containerPort |-> c, hostPort |-> h, protocol |-> p]

\* Port entries for a direct call of LoadPorts: the valid combinations, and
\* every way one field can be wrong.
PortSpecs ==
    {PortSpec(n, Some(c), h, p) :
        n \in {None, Some(NameA)}, c \in {1, MAX_PORT},
        h \in {None, Some(1), Some(2)}, p \in {None, Some("UDP")}}
    \cup {PortSpec(n, Some(1), None, None) :
        n \in {Some(NameB), Some(NameHyphenEnd), Some(NameNewlineEnd),
               Some(NetName), Some(<<>>)}}
    \cup {PortSpec(None, c, None, None) :
        c \in {None, Some(0), Some(-1), Some(MAX_PORT + 1)}}
    \cup {PortSpec(None, Some(1), h, None) :
        h \in {Some(0), Some(MAX_PORT), Some(MAX_PORT + 1)}}
    \cup {PortSpec(None, Some(1), None, p) :
        p \in {Some("TCP"), Some("tcp"), Some("SCTP")}}

\* "ports" blocks of the containers of a manifest.
P80 == PortSpec(None, Some(80), None, None)

P80Udp == PortSpec(None, Some(80), None, Some("UDP"))

P81To80 == PortSpec(None, Some(80), Some(81), None)

P80To81 == PortSpec(None, Some(81), Some(80), None)

P0 == PortSpec(None, Some(0), None, None)

ManifestPortLists ==
    {None, Some(<<>>), Some(<<P80>>), Some(<<P80Udp>>), Some(<<P81To80>>),
     Some(<<P80To81>>), Some(<<P80, P80Udp>>), Some(<<P80, P81To80>>),
     Some(<<P80To81, P81To80>>), Some(<<P0>>)}

MountSpec(n, path, ro) == [name |-> n, path |-> path, readOnly |-> ro]

MountSpecs ==
    {MountSpec(Some(VolV), Some(PathOk), ro) :
        ro \in {None, Some(TRUE), Some(FALSE)}}
    \cup {MountSpec(n, Some(PathOk), None) :
        n \in {None, Some(VolUpper), Some(NameB)}}
    \cup {MountSpec(Some(VolV), path, None) :
        path \in {None, Some(<<>>), Some(PathRelative)}}

EnvSpec(k, v) == [key |-> k, value |-> v]

EnvSpecs ==
    {EnvSpec(Some(<<"K">>), Some(<<"x", " ", "y">>)),
     EnvSpec(None, Some(<<"x">>)),
     EnvSpec(Some(<<"1", "K">>), Some(<<"x">>)),
     EnvSpec(Some(<<"K">>), None)}

BaseCtr(n) ==
    [name |-> Some(n), image |-> Some("img"), command |-> None,
     workingDir |-> None, ports |-> None, volumeMounts |-> None,
     env |-> None]

\* Container entries: two names with the "ports" blocks, and every way one
\* other field can vary.
CtrSpecs ==
    {[BaseCtr(NameA) EXCEPT !.ports = p] : p \in ManifestPortLists}
    \cup {[BaseCtr(NameB) EXCEPT !.ports = p] :
        p \in {None, Some(<<P80>>), Some(<<P80Udp>>), Some(<<P81To80>>),
               Some(<<P80To81>>)}}
    \cup {[BaseCtr(NameA) EXCEPT !.name = n] :
        n \in {None, Some(NameHyphenEnd), Some(NameNewlineEnd),
               Some(NetName)}}
    \cup {[BaseCtr(NameA) EXCEPT !.image = x] : x \in {None, Some("")}}
    \cup {[BaseCtr(NameA) EXCEPT !.command = Some(<<"sleep", "1">>)]}
    \cup {[BaseCtr(NameA) EXCEPT !.workingDir = Some(w)] :
        w \in {<<>>, PathOk, PathRelative, PathMaxLen, PathTooLong}}
    \cup {[BaseCtr(NameA) EXCEPT !.volumeMounts = Some(<<m>>)] :
        m \in MountSpecs}
    \cup {[BaseCtr(NameA) EXCEPT !.env = Some(<<e>>)] : e \in EnvSpecs}
    \cup {[BaseCtr(NameA) EXCEPT !.env = Some(<<e, e>>)] :
        e \in {EnvSpec(Some(<<"K">>), Some(<<"x", " ", "y">>))}}

VolumeSpecs == {[name |-> n] : n \in {None, Some(VolV), Some(VolUpper)}}

Versions == {None, Some("v1beta1"), Some("v1")}

Manifest(v, vols, ctrs) ==
    [version |-> v, volumes |-> vols, containers |-> ctrs]

\* The manifests of the loader: every list of container entries under a
\* supported version and no volumes block; every version and volumes block
\* with at most one container entry.
IsLoadManifest ==
    \/ \E k \in 0..MaxContainers : \E ctrs \in [1..k -> CtrSpecs] :
          config = Manifest(Some("v1beta1"), None, Some(ctrs))
    \/ \E v \in Versions :
       \E kv \in 0..MaxVolumes : \E lv \in [1..kv -> VolumeSpecs] :
       \E vols \in {None, Some(lv)} :
       \E kc \in 0..1 : \E lc \in [1..kc -> CtrSpecs] :
       \E ctrs \in {None, Some(lc)} :
          config = Manifest(v, vols, ctrs)

\* ------------------------------------------------------------------------
\* Initial states.

NoResult == [st |-> "none", val |-> <<>>, msg |-> "", at |-> -1]

InitRun ==
    /\ run_index = 0
    /\ pulls_left = 0
    /\ ctr_id = None
    /\ oplog = <<>>
    /\ entities = <<>>
    /\ registry = <<>>
    /\ keepalives = <<>>
    /\ events = 0

InitMain ==
    /\ pc = "CheckVersion"
    /\ err = NoErr
    /\ vol_index = 0
    /\ all_vol_names = <<>>
    /\ ctr_index = 0
    /\ all_ctr_names = <<>>
    /\ all_ctrs = <<>>
    /\ containers = <<>>

\* The loader and the resolver, on every manifest of the loader.
InitLoad ==
    /\ IsLoadManifest
    /\ InitMain
    /\ InitRun
    /\ ports_spec = <<>>
    /\ ports_result = NoResult

SpecLoad == InitLoad /\ [][NextLoad]_vars

\* A direct call of LoadPorts, as the unit tests make it.
LoadPortsCall ==
    /\ pc = "LoadPorts"
    /\ ports_result' = LoadPorts(ports_spec)
    /\ pc' = "returned"
    /\ UNCHANGED <<config, err, vol_index, all_vol_names, ctr_index,
                   all_ctr_names, all_ctrs, containers, runVars, ports_spec>>

InitPorts ==
    /\ \E k \in 0..MaxPorts : ports_spec \in [1..k -> PortSpecs]
    /\ ports_result = NoResult
    /\ pc = "LoadPorts"
    /\ config = Manifest(None, None, None)
    /\ err = NoErr
    /\ vol_index = 0
    /\ all_vol_names = <<>>
    /\ ctr_index = 0
    /\ all_ctr_names = <<>>
    /\ all_ctrs = <<>>
    /\ containers = <<>>
    /\ InitRun

NextPorts == LoadPortsCall

SpecPorts == InitPorts /\ [][NextPorts]_vars

\* ------------------------------------------------------------------------
\* What a manifest declares, read off the manifest itself.

TerminatedPcs == {"fatal", "raised"}

\* RunContainers has been entered.
DriverPcs == {"pull", "sleep", "kill", "rm", "run", "keepalive", "done"}

\* CheckGroupWideConflicts has returned.
PastCheckPcs == {"LoadInfraContainers", "exit"} \cup DriverPcs

VersionMsgs ==
    {"config has no version field", "config version '%s' is not supported"}

VolumeMsgs ==
    {"volumes[%d] has no name", "volumes[%d].name is invalid: %s",
     "volumes[%d].name is not unique: %s"}

GroupWideMsgs ==
    {"host port %s is not unique group-wide",
     "container port %s is not unique group-wide"}

\* The port entries of the manifest that name a container port, as
\* <<container position, entry position>>.
DeclaredBindings ==
    {<<i, j>> \in (1..Len(ConfigContainers)) \X (1..MaxPorts + 1) :
        /\ Has(ConfigContainers[i].ports)
        /\ j <= Len(Get(ConfigContainers[i].ports))
        /\ Has(Get(ConfigContainers[i].ports)[j].containerPort)}

EntryOf(b) == Get(ConfigContainers[b[1]].ports)[b[2]]

DeclaredCtrPort(b) == Get(EntryOf(b).containerPort)

DeclaredHostPort(b) ==
    IF Has(EntryOf(b).hostPort) THEN Get(EntryOf(b).hostPort)
    ELSE DeclaredCtrPort(b)

DeclaredProto(b) ==
    IF Has(EntryOf(b).protocol) THEN Get(EntryOf(b).protocol) ELSE "TCP"

\* Two port entries claim the same host port, or the same container port,
\* for the same protocol.
Clash(b1, b2) ==
    /\ b1 # b2
    /\ DeclaredProto(b1) = DeclaredProto(b2)
    /\ \/ DeclaredHostPort(b1) = DeclaredHostPort(b2)
       \/ DeclaredCtrPort(b1) = DeclaredCtrPort(b2)

ManifestClash == \E b1, b2 \in DeclaredBindings : Clash(b1, b2)

ManifestClashAcrossContainers ==
    \E b1, b2 \in DeclaredBindings : b1[1] # b2[1] /\ Clash(b1, b2)

\* Two entries with one port number and two protocols, in two containers.
SamePortTwoProtocols ==
    \E b1, b2 \in DeclaredBindings :
        /\ b1[1] # b2[1]
        /\ DeclaredHostPort(b1) = DeclaredHostPort(b2)
        /\ DeclaredCtrPort(b1) = DeclaredCtrPort(b2)
        /\ DeclaredProto(b1) # DeclaredProto(b2)

\* The port bindings of a list of containers, in order.
AllPorts(ctrs) == ExtendedPorts(ctrs, 1, <<>>)

BindingsUnique(ports) ==
    \A i, j \in 1..Len(ports) :
        i # j =>
            /\ <<ports[i][1], ports[i][3]>> # <<ports[j][1], ports[j][3]>>
            /\ <<ports[i][2], ports[i][3]>> # <<ports[j][2], ports[j][3]>>

\* ------------------------------------------------------------------------
\* The violations of a manifest, entry by entry, in the order of the
\* manifest.

Min(S) == CHOOSE x \in S : \A y \in S : x <= y

VersionViolation ==
    \/ ~Has(config.version)
    \/ Get(config.version) \notin SUPPORTED_CONFIG_VERSIONS

VolumeViolation(i) ==
    LET vol == ConfigVolumes[i] IN
    \/ ~Has(vol.name)
    \/ ~IsRfc1035Name(Get(vol.name))
    \/ \E j \in 1..(i - 1) : ConfigVolumes[j].name = vol.name

VolumeViolations == {i \in 1..Len(ConfigVolumes) : VolumeViolation(i)}

\* The volumes a manifest without volume violation declares.
DeclaredVolumes ==
    [i \in 1..Len(ConfigVolumes) |-> Get(ConfigVolumes[i].name)]

\* Entry i of the containers block violates a rule, given the entries
\* before it and the declared volumes.
ContainerViolation(i) ==
    LET ctr_spec == ConfigContainers[i] IN
    \/ ~Has(ctr_spec.name)
    \/ ~IsRfc1035Name(Get(ctr_spec.name))
    \/ \E j \in 1..(i - 1) : ConfigContainers[j].name = ctr_spec.name
    \/ LoadUserContainerBody(ctr_spec, i - 1, DeclaredVolumes).st # "ok"

ContainerViolations ==
    {i \in 1..Len(ConfigContainers) : ContainerViolation(i)}

Loc(sec, idx) == [sec |-> sec, idx |-> idx]

\* The first violation of the manifest, in section and index order.
FirstViolation ==
    IF VersionViolation THEN Loc("version", -1)
    ELSE IF VolumeViolations # {}
    THEN Loc("volumes", Min(VolumeViolations) - 1)
    ELSE IF ContainerViolations # {}
    THEN Loc("containers", Min(ContainerViolations) - 1)
    ELSE IF ManifestClash THEN Loc("group", -1)
    ELSE Loc("none", -1)

\* Where the error that ended the run says the violation is.
ErrLoc(e) ==
    IF e.msg \in VersionMsgs THEN Loc("version", -1)
    ELSE IF e.msg \in VolumeMsgs THEN Loc("volumes", e.sub)
    ELSE IF e.msg \in GroupWideMsgs THEN Loc("group", -1)
    ELSE Loc("containers", e.ctr)

\* Only the entries before the violating one have been processed.
NothingProcessedAfter(loc) ==
    /\ loc.sec = "version" =>
          /\ vol_index = 0 /\ all_vol_names = <<>>
          /\ ctr_index = 0 /\ all_ctr_names = <<>> /\ all_ctrs = <<>>
    /\ loc.sec = "volumes" =>
          /\ vol_index = loc.idx /\ Len(all_vol_names) = loc.idx
          /\ ctr_index = 0 /\ all_ctr_names = <<>> /\ all_ctrs = <<>>
    /\ loc.sec = "containers" =>
          /\ ctr_index = loc.idx /\ Len(all_ctrs) = loc.idx
          /\ Len(all_ctr_names) <= loc.idx + 1

\* C1: whenever RunContainers has been entered, no two port bindings of the
\* group share (host_port, suffix) or (container_port, suffix); a manifest in
\* which two containers claim one host port or one container port for one
\* protocol never gets past the group-wide check, and if the clash is its
\* first violation the run ends in the fatal state of that check; the
\* group-wide check ends the run only for such a clash, so that one port
\* number under TCP and under UDP is accepted.
C1_GroupPortsUnique ==
    /\ pc \in DriverPcs => BindingsUnique(AllPorts(containers))
    /\ pc \in PastCheckPcs => ~ManifestClash
    /\ ManifestClashAcrossContainers => pc \notin PastCheckPcs
    /\ (FirstViolation.sec = "group" /\ ~ENABLED NextLoad) =>
          (pc = "fatal" /\ err.msg \in GroupWideMsgs)
    /\ (pc = "fatal" /\ err.msg \in GroupWideMsgs) => ManifestClash

\* C1 witness: RunContainers entered with two containers that declared one
\* port number under two protocols.
C1_Witness ==
    /\ pc = "pull"
    /\ SamePortTwoProtocols
    /\ Len(AllPorts(containers)) >= 2

\* C1 witness of the rejection: the run ended by the group-wide check.
C1_RejectWitness ==
    /\ pc = "fatal"
    /\ err.msg \in GroupWideMsgs
    /\ ManifestClashAcrossContainers

\* C7: a validation error ends the run at once (the run is terminated
\* exactly when an error is recorded, and a terminated run takes no further
\* step); the one error surfaced is the first violation of the manifest in
\* section and index order (version, volumes, containers, group-wide
\* check); no entry after the violating one has been processed, and a
\* manifest with a violation never gets past validation.
C7_FirstViolationOnly ==
    /\ (err # NoErr) <=> (pc \in TerminatedPcs)
    /\ pc \in TerminatedPcs =>
          /\ ~ENABLED NextLoad
          /\ ErrLoc(err) = FirstViolation
          /\ NothingProcessedAfter(ErrLoc(err))
          /\ containers = <<>>
    /\ FirstViolation.sec # "none" => pc \notin PastCheckPcs

\* C7 witness: a manifest with a violation in the volumes block and in the
\* containers block, or in two container entries, ended by its first one.
C7_Witness ==
    /\ pc \in TerminatedPcs
    /\ ~VersionViolation
    /\ \/ /\ VolumeViolations # {}
          /\ \E i \in 1..Len(ConfigContainers) :
                ~Has(ConfigContainers[i].name)
       \/ /\ VolumeViolations = {}
          /\ Cardinality(ContainerViolations) >= 2

\* ------------------------------------------------------------------------
\* The group handed to RunContainers.

ContainerPrefix == <<"c", "o", "n", "t", "a", "i", "n", "e", "r", ":">>

NamesDistinct(ctrs) ==
    \A i, j \in 1..Len(ctrs) : i # j => ctrs[i].name # ctrs[j].name

\* C8: once RunContainers has been entered for a manifest of n >= 1
\* containers, its argument has n + 1 entries: the namespace holder, then
\* the user containers under the names of the manifest, in its order; each
\* user container joins the network of the holder, designated by the
\* holder's name, and has its own name as hostname; the holder has neither
\* a hostname nor a network reference.
C8_GroupShape ==
    pc \in DriverPcs =>
        /\ Len(ConfigContainers) >= 1
        /\ Len(containers) = Len(ConfigContainers) + 1
        /\ containers[1].hostname = None
        /\ containers[1].network_from = None
        /\ SubSeq(containers, 2, Len(containers)) = all_ctrs
        /\ \A i \in 1..Len(ConfigContainers) :
              /\ containers[i + 1].name = Get(ConfigContainers[i].name)
              /\ containers[i + 1].hostname = Some(containers[i + 1].name)
              /\ containers[i + 1].network_from
                    = Some(ContainerPrefix \o containers[1].name)

\* C8 witness: RunContainers entered with two user containers.
C8_Witness ==
    /\ pc = "pull"
    /\ Len(containers) = 3
    /\ containers[2].name # containers[3].name

\* C9: the names of the group handed to RunContainers are pairwise
\* distinct, the namespace holder's included; the loader never completes
\* the second of two entries with one name, and the error that reports a
\* name as not unique is at an entry whose name an earlier entry has; no
\* name the loader has accepted is that of the namespace holder.
C9_NamesUnique ==
    /\ pc \in DriverPcs => NamesDistinct(containers)
    /\ NamesDistinct(all_ctrs)
    /\ \A i, j \in 1..Len(ConfigContainers) :
          (i < j /\ Has(ConfigContainers[j].name)
                 /\ ConfigContainers[i].name = ConfigContainers[j].name)
              => ctr_index < j
    /\ (pc = "fatal" /\ err.msg = "containers[%d].name is not unique: %s") =>
          /\ ctr_index = err.ctr
          /\ \E i \in 1..err.ctr :
                ConfigContainers[i].name = ConfigContainers[err.ctr + 1].name
    /\ \A i \in 1..Len(all_ctr_names) :
          all_ctr_names[i] # LoadInfraContainers(<<>>).infra[1].name

\* C9 witness: a manifest whose second entry repeats the name of the first,
\* ended at the second.
C9_Witness ==
    /\ pc = "fatal"
    /\ err = Err("containers[%d].name is not unique: %s", 1, -1)
    /\ Len(all_ctrs) = 1

\* ------------------------------------------------------------------------
\* LoadPorts against the rules of a "ports" block.

\* An RFC-1035 label: a lowercase letter first, then lowercase letters,
\* digits and hyphens, and no hyphen last.
Rfc1035Label(s) ==
    /\ Len(s) >= 1
    /\ s[1] \in LowerChars
    /\ \A i \in 1..Len(s) : s[i] \in LowerChars \cup DigitChars \cup {"-"}
    /\ s[Len(s)] # "-"

\* The host port of an entry, given or defaulted, if there is one.
HostPortOf(e) == IF Has(e.hostPort) THEN e.hostPort ELSE e.containerPort

ProtoOf(e) == IF Has(e.protocol) THEN Get(e.protocol) ELSE "TCP"

PortEntryOk(ps, i, NameOk(_)) ==
    LET e == ps[i] IN
    /\ Has(e.containerPort)
    /\ Get(e.containerPort) \in 1..65535
    /\ Get(HostPortOf(e)) \in 1..65535
    /\ \A j \in 1..(i - 1) : HostPortOf(ps[j]) # HostPortOf(e)
    /\ ProtoOf(e) \in {"TCP", "UDP"}
    /\ Has(e.name) =>
          /\ NameOk(Get(e.name))
          /\ \A j \in 1..(i - 1) : ps[j].name # e.name

ExpectedTuple(e) ==
    <<Get(HostPortOf(e)), Get(e.containerPort),
      IF ProtoOf(e) = "UDP" THEN <<"/", "u", "d", "p">> ELSE <<>>>>

\* What LoadPorts has to answer on ps: the tuples in input order, or the
\* fatal state at the first offending entry.
PortsAsRequired(ps, result, NameOk(_)) ==
    LET bad == {i \in 1..Len(ps) : ~PortEntryOk(ps, i, NameOk)} IN
    IF bad = {}
    THEN /\ result.st = "ok"
         /\ result.val = [i \in 1..Len(ps) |-> ExpectedTuple(ps[i])]
    ELSE /\ result.st = "fatal"
         /\ result.at = Min(bad) - 1

\* C10: LoadPorts succeeds iff every entry has a containerPort in
\* [1, 65535], a hostPort (the containerPort when absent) in [1, 65535]
\* that no earlier entry has, a protocol (TCP when absent) that is TCP or
\* UDP, and a name that, when given, is an RFC-1035 label no earlier entry
\* has; it then returns the tuples (host_port, container_port, suffix) in
\* input order, and otherwise ends in the fatal state at the first
\* offending entry.
C10_LoadPortsAsSpecified ==
    pc = "returned" => PortsAsRequired(ports_spec, ports_result, Rfc1035Label)

\* The same with the names LoadPorts accepts being those IsRfc1035Name
\* accepts: LoadPorts departs from C10 only where IsRfc1035Name departs
\* from the label grammar.
LoadPortsUpToNameGrammar ==
    pc = "returned" => PortsAsRequired(ports_spec, ports_result, IsRfc1035Name)

\* A call of LoadPorts with two valid entries, one of them UDP, has returned.
LoadPortsTwoEntriesReturned ==
    /\ pc = "returned"
    /\ ports_result.st = "ok"
    /\ Len(ports_result.val) = 2
    /\ ports_result.val[1][3] # ports_result.val[2][3]

\* ------------------------------------------------------------------------
\* The whole program: main() on a manifest, against a runtime that may hold
\* entities of an earlier run and a registry that may fail pulls.

A80 == [BaseCtr(NameA) EXCEPT !.ports = Some(<<P80>>)]

B80 == [BaseCtr(NameB) EXCEPT !.ports = Some(<<P80>>)]

B80Udp == [BaseCtr(NameB) EXCEPT !.ports = Some(<<P80Udp>>)]

IsRunManifest ==
    \/ \E k \in 0..MaxContainers : \E ctrs \in [1..k -> {A80, B80, B80Udp}] :
          config = Manifest(Some("v1beta1"), None, Some(ctrs))
    \/ \E v \in Versions :
       \E vols \in {None, Some(<<[name |-> Some(VolUpper)]>>)} :
       \E ctrs \in {None, Some(<<A80>>),
                     Some(<<[A80 EXCEPT !.workingDir = Some(<<>>)]>>)} :
          config = Manifest(v, vols, ctrs)

NameOld == <<"o", "l", "d">>

StaleEntities ==
    {<<>>, <<Entity(NameA, "running"), Entity(NameOld, "running")>>}

Images == {"busybox", "img"}

\* How many pulls of an image fail before one succeeds: none, or as many as
\* the retry loop makes; for the image of the user containers also one
\* fewer.
Registries ==
    {r \in [Images -> {0, 9, 10}] :
        \/ r["busybox"] = 0
        \/ r["busybox"] = 10 /\ r["img"] = 0}

Init ==
    /\ IsRunManifest
    /\ InitMain
    /\ run_index = 0
    /\ pulls_left = 0
    /\ ctr_id = None
    /\ oplog = <<>>
    /\ entities \in StaleEntities
    /\ registry \in Registries
    /\ keepalives = <<>>
    /\ events = 0
    /\ ports_spec = <<>>
    /\ ports_result = NoResult

Spec == Init /\ [][Next]_vars

\* ------------------------------------------------------------------------
\* The requests of RunContainers, read off the log.

OpsAt(ops, c) ==
    {i \in 1..Len(oplog) : oplog[i].op \in ops /\ oplog[i].ctr = c}

Pulls(c) == OpsAt({"pull"}, c)

FailedPulls(c) == {i \in Pulls(c) : ~oplog[i].ok}

LaunchOps == {"kill", "rm", "run", "keepalive"}

\* C4: for each container of the group there are at most 10 pull attempts;
\* no attempt follows one that succeeded; a failed attempt that is not the
\* tenth is followed by the delay of 3 and then by the next attempt, and
\* there is no delay elsewhere; cleanup and start of a container come only
\* after a pull of its image that succeeded; and once 10 attempts have
\* failed (and only then) the run is in the fatal state for the pull, with
\* that attempt as its last request: no kill, rm, run or keepalive for that
\* container, no request for a later one, and no further statement of
\* RunContainers to take.
C4_PullRetries ==
    /\ \A i \in 1..Len(oplog) : oplog[i].ctr \in 1..Len(containers)
    /\ \A i \in 1..Len(oplog) :
          oplog[i].op = "sleep" =>
             /\ oplog[i].arg = 3
             /\ i > 1
             /\ oplog[i - 1].op = "pull"
             /\ ~oplog[i - 1].ok
             /\ oplog[i - 1].ctr = oplog[i].ctr
    /\ \A c \in 1..Len(containers) :
          /\ Cardinality(Pulls(c)) <= 10
          /\ \A i, j \in Pulls(c) : i < j => ~oplog[i].ok
          /\ \A i \in FailedPulls(c) :
                \/ Cardinality({j \in Pulls(c) : j <= i}) = 10
                \/ i = Len(oplog) /\ pc = "sleep"
                \/ /\ i < Len(oplog)
                   /\ oplog[i + 1].op = "sleep"
                   /\ oplog[i + 1].ctr = c
                   /\ \/ i + 1 = Len(oplog) /\ pc = "pull"
                      \/ i + 1 < Len(oplog) /\ i + 2 \in Pulls(c)
          /\ \A i \in OpsAt(LaunchOps, c) :
                \E j \in Pulls(c) : j < i /\ oplog[j].ok
          /\ Cardinality(FailedPulls(c)) = 10 =>
                /\ pc = "fatal"
                /\ err = Err("failed to pull %s", c - 1, -1)
                /\ Len(oplog) \in Pulls(c)
                /\ OpsAt(LaunchOps, c) = {}
                /\ \A i \in 1..Len(oplog) : oplog[i].ctr <= c
                /\ ~ENABLED RunContainersStep
    /\ (pc = "fatal" /\ err.msg = "failed to pull %s") =>
          Cardinality(FailedPulls(err.ctr + 1)) = 10

\* C4 witness: the namespace holder is up after one pull, and the run has
\* ended on the tenth failed pull for the first user container.
C4_Witness ==
    /\ pc = "fatal"
    /\ Cardinality(FailedPulls(2)) = 10
    /\ Cardinality(Pulls(1)) = 1
    /\ Len(keepalives) = 1

\* C5: if the run request for the container at position n has failed, the
\* run is in the fatal state for it, with that request as its last one and
\* no further statement of RunContainers to take: no keepalive script is
\* spawned for n; there is no request for a container after n; and each
\* container before n has been started, has its keepalive script, and has
\* had no kill or rm of its name since it was started.
C5_RunFailureIsFatal ==
    \A i \in 1..Len(oplog) :
        (oplog[i].op = "run" /\ ~oplog[i].ok) =>
            LET n == oplog[i].ctr IN
            /\ pc = "fatal"
            /\ err = Err("failed to run container '%s'", n - 1, -1)
            /\ i = Len(oplog)
            /\ ~ENABLED RunContainersStep
            /\ OpsAt({"keepalive"}, n) = {}
            /\ \A k \in 1..Len(keepalives) :
                  keepalives[k].name # containers[n].name
            /\ \A j \in 1..Len(oplog) : oplog[j].ctr <= n
            /\ \A m \in 1..(n - 1) :
                  \E r \in OpsAt({"run"}, m) :
                     /\ oplog[r].ok
                     /\ entities[oplog[r].arg].name = containers[m].name
                     /\ \E k \in 1..Len(keepalives) :
                           keepalives[k].id = oplog[r].arg
                     /\ \A j \in (r + 1)..Len(oplog) :
                           oplog[j].op \in {"kill", "rm"} =>
                              oplog[j].target # containers[m].name

\* C5 witness: the run request for the second user container has failed
\* with the namespace holder and the first user container running.
C5_Witness ==
    /\ pc = "fatal"
    /\ oplog # <<>>
    /\ Len(containers) = 3
    /\ oplog[Len(oplog)] = Op("run", 3, containers[3].name, 0, FALSE)
    /\ \A k \in 1..Len(keepalives) :
          entities[keepalives[k].id].status = "running"

\* C6: RunContainers is entered, and a request is issued, only for a
\* manifest without violation (version, volumes, every container entry,
\* group-wide port check) that has at least one container entry; with an
\* empty or absent containers block nothing is requested and the entities
\* of the runtime are what they were, and if the manifest has no violation
\* main() goes on to return without error; main() returns this way for no
\* other manifest.
C6_LaunchOnlyAfterValidation ==
    /\ (oplog # <<>> \/ keepalives # <<>> \/ containers # <<>>
           \/ pc \in DriverPcs) =>
          /\ FirstViolation.sec = "none"
          /\ Len(ConfigContainers) >= 1
    /\ ConfigContainers = <<>> =>
          /\ oplog = <<>>
          /\ keepalives = <<>>
          /\ containers = <<>>
          /\ pc \notin DriverPcs
          /\ entities \in StaleEntities
          /\ FirstViolation.sec = "none" =>
                /\ err = NoErr
                /\ pc \notin TerminatedPcs
                /\ pc = "exit" \/ ENABLED NextLoad
    /\ pc = "exit" =>
          /\ ConfigContainers = <<>>
          /\ err = NoErr
          /\ ~ENABLED Next

\* C6 witness: main() has returned on a manifest whose containers block is
\* empty, with entities of an earlier run in the runtime.
C6_Witness ==
    /\ pc = "exit"
    /\ config.containers = Some(<<>>)
    /\ entities # <<>>

\* ------------------------------------------------------------------------
\* The keepalive scripts.

\* The scripts a run can spawn: one per container of the group.
Scripts == 1..(MaxContainers + 1)

\* Every script is scheduled, and the docker wait, inspect and restart it
\* calls return.
FairSpec ==
    /\ Spec
    /\ \A k \in Scripts :
          /\ WF_vars(KeepaliveWaitReturns(k))
          /\ WF_vars(KeepaliveInspect(k))
          /\ WF_vars(KeepaliveRestartReturns(k))

StatusOf(k) == entities[keepalives[k].id].status

\* C2: whenever the container of a keepalive script has exited and is
\* still there, the script comes to issue a restart request for it, unless
\* the container is gone before; this includes the exit that a failed
\* restart request leaves in place, and every exit after a restart.
C2_RestartAfterEveryExit ==
    \A k \in Scripts :
        (k <= Len(keepalives) /\ StatusOf(k) = "exited")
            ~> (k <= Len(keepalives)
                  /\ (keepalives[k].pc = "restart" \/ StatusOf(k) = "gone"))

\* C2 witness: a restart request issued after one that failed.
C2_Witness ==
    \E k \in 1..Len(keepalives) :
        /\ keepalives[k].pc = "restart"
        /\ keepalives[k].last = "failed"
        /\ StatusOf(k) = "exited"

\* C3: a keepalive script halts only at its inspect, and only when the
\* entity is gone; at its inspect it halts when the entity is gone and goes
\* on to the restart request when it is there; the inspect comes only after
\* a docker wait that returned; after the restart request, failed or not,
\* the script is back at docker wait; a halted script stays halted.
C3_HaltsExactlyWhenGone ==
    [][\A k \in 1..Len(keepalives) :
          LET before == keepalives[k].pc
              after == keepalives'[k].pc
              gone == StatusOf(k) = "gone"
          IN  /\ (before # "halted" /\ after = "halted") =>
                    (before = "inspect" /\ gone)
              /\ (before = "inspect" /\ after # "inspect") =>
                    after = (IF gone THEN "halted" ELSE "restart")
              /\ (before # "inspect" /\ after = "inspect") =>
                    (before = "wait" /\ StatusOf(k) # "running")
              /\ (before = "restart" /\ after # "restart") => after = "wait"
              /\ before = "halted" => after = "halted"]_vars

\* C3 witness: one script has halted on a removed container while another
\* is back at docker wait after a restart request that failed.
C3_Witness ==
    \E k, l \in 1..Len(keepalives) :
        /\ keepalives[k].pc = "halted"
        /\ keepalives[l].pc = "wait"
        /\ keepalives[l].last = "failed"

\* ------------------------------------------------------------------------
\* The validators under the loader.

\* The container entry the loader is at.
EntryAt == ConfigContainers[ctr_index + 1]

\* The entry the loader is at gives the empty string as its workingDir, or
\* as the path of one of its volume mounts.
EmptyPathAt ==
    /\ ctr_index < Len(ConfigContainers)
    /\ \/ EntryAt.workingDir = Some(<<>>)
       \/ /\ Has(EntryAt.volumeMounts)
          /\ \E j \in 1..Len(Get(EntryAt.volumeMounts)) :
                Get(EntryAt.volumeMounts)[j].path = Some(<<>>)

PathMsgs ==
    {"containers[%s].workingDir is invalid: %s",
     "containers[%s].volumeMounts[%s].path is invalid: %s"}

\* C11: no validator raises, so the run never ends in an uncaught
\* exception; and the empty path is classified as invalid: no container
\* entry that gives the empty string as its workingDir or as a mount path
\* is ever loaded.
C11_ValidatorsNeverRaise ==
    /\ pc # "raised"
    /\ \A i \in 1..Len(all_ctrs) :
          /\ ConfigContainers[i].workingDir # Some(<<>>)
          /\ Has(ConfigContainers[i].volumeMounts) =>
                \A j \in 1..Len(Get(ConfigContainers[i].volumeMounts)) :
                   Get(ConfigContainers[i].volumeMounts)[j].path # Some(<<>>)

\* The uncaught exception is the IndexError of an empty path and nothing
\* else: the validators of names, tokens, ports and protocols, and
\* IsValidPath on a non-empty path, give a verdict.
RaisedOnlyOnEmptyPath ==
    pc = "raised" =>
        /\ EmptyPathAt
        /\ err.msg = "IndexError: string index out of range"
        /\ err.ctr = ctr_index

\* A path that is too long or not absolute has ended the run in the fatal
\* state of its field.
InvalidPathFatal ==
    /\ pc = "fatal"
    /\ err.msg \in PathMsgs

\* ------------------------------------------------------------------------
\* The image of a container entry.

\* Every loaded container has the image its entry gives, no entry without
\* an image is loaded, and the error for a missing image is at an entry
\* without one.
ImagePresent ==
    /\ \A i \in 1..Len(all_ctrs) :
          /\ Has(ConfigContainers[i].image)
          /\ all_ctrs[i].image = Get(ConfigContainers[i].image)
    /\ (pc = "fatal" /\ err.msg = "containers[%s] has no image") =>
          (err.ctr = ctr_index /\ ~Has(EntryAt.image))

\* C12: every loaded container has the image its entry gives, and that
\* image is not empty; no entry without an image is loaded, the run ends in
\* the fatal state at it; and the image value is checked for nothing else.
C12_ImageRequired ==
    /\ ImagePresent
    /\ \A i \in 1..Len(all_ctrs) : all_ctrs[i].image # ""

\* A manifest whose one entry gives an image has been loaded.
ImageLoaded ==
    /\ pc = "CheckGroupWideConflicts"
    /\ Len(all_ctrs) = 1
    /\ all_ctrs[1].image = "img"

\* ------------------------------------------------------------------------
\* LoadInfraContainers on the loaded user containers.

\* How many port bindings the user containers before position i have.
RECURSIVE PortsBefore(_, _)
PortsBefore(ctrs, i) ==
    IF i <= 1 THEN 0
    ELSE PortsBefore(ctrs, i - 1) + Len(ctrs[i - 1].ports)

\* C13: the step of main() that calls LoadInfraContainers leaves every
\* user container with an empty port list and otherwise as it was, in the
\* list main() keeps and in the group handed to RunContainers; the port
\* list of the namespace holder is the port lists the user containers had,
\* one after the other in manifest order, and nothing more.
C13_PortsMoved ==
    [][(pc = "LoadInfraContainers" /\ pc' = "pull") =>
          /\ Len(all_ctrs') = Len(all_ctrs)
          /\ Len(containers') = Len(all_ctrs) + 1
          /\ Len(containers'[1].ports) = PortsBefore(all_ctrs, Len(all_ctrs) + 1)
          /\ \A i \in 1..Len(all_ctrs) :
                /\ all_ctrs'[i].ports = <<>>
                /\ all_ctrs'[i] = [all_ctrs[i] EXCEPT !.ports = <<>>]
                /\ containers'[i + 1] = all_ctrs'[i]
                /\ \A j \in 1..Len(all_ctrs[i].ports) :
                      containers'[1].ports[PortsBefore(all_ctrs, i) + j]
                         = all_ctrs[i].ports[j]]_vars

\* C13 witness: LoadInfraContainers has run on two user containers that
\* had one and two port bindings.
C13_Witness ==
    /\ pc = "pull"
    /\ Len(containers) = 3
    /\ Len(containers[1].ports) = 3
    /\ Len(Get(ConfigContainers[1].ports)) = 2
    /\ containers[2].ports = <<>>
    /\ containers[3].ports = <<>>

\* ------------------------------------------------------------------------
\* The order of the requests of RunContainers.

\* C14: the requests of the main flow are in group order, the namespace
\* holder first: the positions in the log never decrease, the first
\* request is the pull for the namespace holder at position 1, and every
\* request for a position after the first comes after a run request for
\* the position before it that succeeded.
C14_OneAtATimeInOrder ==
    /\ \A i, j \in 1..Len(oplog) : i < j => oplog[i].ctr <= oplog[j].ctr
    /\ oplog # <<>> =>
          /\ oplog[1].op = "pull"
          /\ oplog[1].ctr = 1
          /\ containers[1].name = NetName
          /\ oplog[1].target = <<containers[1].image>>
    /\ \A i \in 1..Len(oplog) :
          oplog[i].ctr > 1 =>
             \E j \in 1..(i - 1) :
                /\ oplog[j].op = "run"
                /\ oplog[j].ctr = oplog[i].ctr - 1
                /\ oplog[j].ok
    /\ pc \in {"pull", "sleep", "kill", "rm", "run"} =>
          \A c \in 1..(run_index - 1) :
             \E j \in OpsAt({"run"}, c) : oplog[j].ok

\* C14 witness: the second user container is being launched while the
\* keepalive script of the namespace holder is past its docker wait.
C14_Witness ==
    /\ pc = "run"
    /\ run_index = 3
    /\ keepalives[1].pc = "restart"
    /\ keepalives[1].name = NetName

\* ------------------------------------------------------------------------
\* The keepalive scripts and the containers they are for.

\* The run requests that succeeded.
StartedRuns == {r \in 1..Len(oplog) : oplog[r].op = "run" /\ oplog[r].ok}

\* The keepalive scripts spawned with the id a run request returned.
ScriptsOf(r) == {k \in 1..Len(keepalives) : keepalives[k].id = oplog[r].arg}

\* The spawn statement after run request r has not been executed yet.
SpawnPending(r) == pc = "keepalive" /\ run_index = oplog[r].ctr

\* Every script is bound to the name and the id of one started container,
\* and a container whose pull or run failed has none.
ScriptsBound ==
    /\ \A r \in StartedRuns :
          \A k \in ScriptsOf(r) :
             keepalives[k].name = containers[oplog[r].ctr].name
    /\ \A k \in 1..Len(keepalives) :
          \E r \in StartedRuns : k \in ScriptsOf(r)
    /\ \A r1, r2 \in StartedRuns : r1 # r2 => oplog[r1].arg # oplog[r2].arg
    /\ \A c \in 1..Len(containers) :
          (Cardinality(FailedPulls(c)) = 10
              \/ \E r \in OpsAt({"run"}, c) : ~oplog[r].ok) =>
             /\ OpsAt({"keepalive"}, c) = {}
             /\ \A k \in 1..Len(keepalives) :
                   keepalives[k].name # containers[c].name

\* A step of script k: it keeps its name and id, touches no entity but the
\* one with its id, and nothing of the main flow or of another script.
ScriptStepsOwnId ==
    \A k \in 1..Len(keepalives) :
        /\ keepalives'[k].id = keepalives[k].id
        /\ keepalives'[k].name = keepalives[k].name
        /\ keepalives'[k].pc # keepalives[k].pc =>
              /\ Len(entities') = Len(entities)
              /\ \A id \in 1..Len(entities) :
                    id # keepalives[k].id => entities'[id] = entities[id]
              /\ \A l \in 1..Len(keepalives) :
                    l # k => keepalives'[l] = keepalives[l]
              /\ UNCHANGED <<pc, oplog, run_index, ctr_id, containers>>

\* C15 as stated: in every state, each container whose run request
\* succeeded has exactly one keepalive script, spawned with the id that
\* request returned; a container whose pull or run failed has none.
C15_ExactlyOneScriptAlways ==
    /\ ScriptsBound
    /\ \A r \in StartedRuns : Cardinality(ScriptsOf(r)) = 1

\* C15 amended: each container whose run request succeeded has at most
\* one keepalive script, and exactly one from the moment the spawn
\* statement after that request has been executed; the script is bound to
\* the name of the container and the id the request returned; a container
\* whose pull or run failed has none; and every step of a script concerns
\* the id it was spawned with and nothing else.
C15_OneScriptOnceSpawned ==
    /\ [](/\ ScriptsBound
          /\ \A r \in StartedRuns :
                Cardinality(ScriptsOf(r)) = (IF SpawnPending(r) THEN 0 ELSE 1))
    /\ [][ScriptStepsOwnId]_vars

\* C15 witness: two scripts are past their docker wait while the main flow
\* is launching the third container.
C15_Witness ==
    /\ pc \in {"pull", "kill", "rm", "run"}
    /\ run_index = 3
    /\ Len(keepalives) = 2
    /\ keepalives[1].pc \in {"inspect", "restart"}
    /\ keepalives[2].pc \in {"inspect", "restart"}
    /\ keepalives[1].id # keepalives[2].id

\* ------------------------------------------------------------------------
\* The cleanup before a container is started.

\* Request i of the log is op, for position c, or it is the next request
\* and the main flow is at the statement that issues it.
NextIs(i, op, c) ==
    \/ i = Len(oplog) + 1 /\ pc = op /\ run_index = c
    \/ i <= Len(oplog) /\ oplog[i].op = op /\ oplog[i].ctr = c

\* C16: a kill and an rm -f are for the name of the container being
\* launched, after a pull of its image that succeeded and before its run
\* request; after that pull come the kill, the rm -f and the run request,
\* one after the other, whether the kill and the rm -f succeed or fail;
\* and the run is never in the fatal state because of them: a fatal state
\* of RunContainers is that of a failed pull or of a failed run request.
C16_CleanupBestEffort ==
    /\ \A i \in 1..Len(oplog) :
          oplog[i].op \in {"kill", "rm"} =>
             LET c == oplog[i].ctr IN
             /\ oplog[i].target = containers[c].name
             /\ \E j \in Pulls(c) : j < i /\ oplog[j].ok
             /\ \A r \in OpsAt({"run"}, c) : r > i
    /\ \A i \in 1..Len(oplog) :
          (oplog[i].op = "pull" /\ oplog[i].ok) =>
             LET c == oplog[i].ctr IN
             /\ NextIs(i + 1, "kill", c)
             /\ i + 1 <= Len(oplog) => NextIs(i + 2, "rm", c)
             /\ i + 2 <= Len(oplog) => NextIs(i + 3, "run", c)
    /\ pc \in {"kill", "rm", "run"} => ENABLED RunContainersStep
    /\ (pc = "fatal" /\ oplog # <<>>) =>
          /\ oplog[Len(oplog)].op \in {"pull", "run"}
          /\ ~oplog[Len(oplog)].ok
          /\ err.msg \in {"failed to pull %s",
                          "failed to run container '%s'"}

\* C16 witness: the kill and the rm -f of a container have both failed and
\* its run request has been issued and has succeeded.
C16_Witness ==
    \E i \in 1..Len(oplog) :
        /\ i + 2 <= Len(oplog)
        /\ oplog[i].op = "kill" /\ ~oplog[i].ok
        /\ oplog[i + 1].op = "rm" /\ ~oplog[i + 1].ok
        /\ oplog[i + 2].op = "run" /\ oplog[i + 2].ok

\* ------------------------------------------------------------------------
\* What the requests are for.

\* The names of the group handed to RunContainers.
GroupNames == {containers[c].name : c \in 1..Len(containers)}

\* C17: every kill, rm -f and run request is for the name of the container
\* of the group it is issued for; every keepalive script, and so every
\* restart request, has the id that a run request of this run returned for
\* a container of the group; and no step changes an entity whose name is
\* not in the group, nor creates one.
C17_OnlyGroupTargeted ==
    /\ [](/\ \A i \in 1..Len(oplog) :
                oplog[i].op \in {"kill", "rm", "run"} =>
                   /\ oplog[i].target = containers[oplog[i].ctr].name
                   /\ oplog[i].target \in GroupNames
          /\ \A k \in 1..Len(keepalives) :
                /\ entities[keepalives[k].id].name \in GroupNames
                /\ keepalives[k].name = entities[keepalives[k].id].name
                /\ \E r \in StartedRuns : oplog[r].arg = keepalives[k].id)
    /\ [][/\ \A id \in 1..Len(entities) :
               entities[id].name \notin GroupNames =>
                  entities'[id] = entities[id]
          /\ \A id \in (Len(entities) + 1)..Len(entities') :
               entities'[id].name \in GroupNames]_vars

\* C17 witness: RunContainers has returned with the entity of an earlier
\* run that has the name of a container of the group removed, the one with
\* another name still running, and a container of the group restarted.
C17_Witness ==
    /\ pc = "done"
    /\ Len(entities) > 2
    /\ entities[1] = Entity(NameA, "gone")
    /\ entities[2] = Entity(NameOld, "running")
    /\ \E k \in 1..Len(keepalives) : keepalives[k].last = "ok"

\* ------------------------------------------------------------------------
\* Host ports within a container and across containers.

HostPortNotUniqueMsg == "containers[%s].ports[%s].hostPort is not unique: %d"

\* Two port entries of container entry i claim one host port, whatever
\* their protocols.
SameHostPortWithin(i) ==
    \E b1, b2 \in DeclaredBindings :
        /\ b1[1] = i /\ b2[1] = i /\ b1[2] # b2[2]
        /\ DeclaredHostPort(b1) = DeclaredHostPort(b2)

\* C18: a container entry in which two port entries claim one host port is
\* never loaded, also when the two are of different protocols, and the run
\* ended for a host port that is not unique is at a port entry whose host
\* port an earlier entry of the same container has; the group-wide check
\* ends the run only for two bindings of one protocol, so that it lets
\* through in two containers what LoadPorts rejects in one.
C18_HostPortCheckIgnoresProtocol ==
    /\ \A i \in 1..Len(all_ctrs) : ~SameHostPortWithin(i)
    /\ (pc = "fatal" /\ err.msg = HostPortNotUniqueMsg) =>
          /\ err.ctr = ctr_index
          /\ \E j \in 1..err.sub :
                DeclaredHostPort(<<ctr_index + 1, j>>)
                   = DeclaredHostPort(<<ctr_index + 1, err.sub + 1>>)
    /\ (pc = "fatal" /\ err.msg \in GroupWideMsgs) =>
          \E b1, b2 \in DeclaredBindings :
             /\ Clash(b1, b2)
             /\ DeclaredProto(b1) = DeclaredProto(b2)
    /\ (ConfigContainers = <<A80, B80Udp>> /\ ~VersionViolation
           /\ VolumeViolations = {}) => pc \notin TerminatedPcs

\* C18 witness: the run has ended at a container entry that gives host
\* port 80 under TCP and under UDP.
C18_Witness ==
    /\ pc = "fatal"
    /\ err.msg = HostPortNotUniqueMsg
    /\ Get(EntryAt.ports) = <<P80, P80Udp>>

\* The same two bindings in two containers: RunContainers is entered.
C18_AcceptedAcrossContainers ==
    /\ pc = "pull"
    /\ ConfigContainers = <<A80, B80Udp>>
    /\ containers[1].ports = <<<<80, 80, <<>>>>, <<80, 80, <<"/", "u", "d", "p">>>>>>

====
